---- MODULE Spec2Model ----
(***************************************************************************)
(* Byte-level model of mongo/mongo.go: marshal, ensureID, ensureDollarKey, *)
(* ensureNoDollarKey, marshalAggregatePipeline, marshalUpdateValue and     *)
(* countDocumentsAggregatePipeline.                                        *)
(*                                                                         *)
(* Documents are sequences of bytes (naturals 0..255) laid out as BSON:    *)
(* int32 little-endian length, elements (type byte, key, 0x00, value),     *)
(* terminating 0x00.  The bsoncore primitives and the bson encoder and     *)
(* decoder live outside mongo.go; they are modelled here by what they do   *)
(* to the bytes.  A Go value handed to one of the functions is a record    *)
(* naming its dynamic type (kind) and its content.                         *)
(***************************************************************************)
EXTENDS Integers, Sequences, FiniteSets, TLC

VARIABLES pc, op, args, ret

vars == <<pc, op, args, ret>>

(***************************************************************************)
(* Bounds of the model.                                                    *)
(***************************************************************************)
\* elements per generated document
MaxElems == 2
\* stages per generated pipeline / items per generated slice
MaxStages == 2

(***************************************************************************)
(* BSON type tags (bsoncore.Type).                                         *)
(***************************************************************************)
TypeString == 2
TypeEmbeddedDocument == 3
TypeArray == 4
TypeObjectID == 7
TypeNull == 10
TypeInt32 == 16
TypeInt64 == 18

(***************************************************************************)
(* Keys, as the bytes of their characters.                                 *)
(***************************************************************************)
DollarSign == <<36>>
K_id == <<95, 105, 100>>
K_name == <<110, 97, 109, 101>>
K_x == <<120>>
K_empty == <<>>
K_set == <<36, 115, 101, 116>>
K_out == <<36, 111, 117, 116>>
K_outx == <<36, 111, 117, 116, 120>>
K_merge == <<36, 109, 101, 114, 103, 101>>
K_match == <<36, 109, 97, 116, 99, 104>>
K_skip == <<36, 115, 107, 105, 112>>
K_limit == <<36, 108, 105, 109, 105, 116>>
K_group == <<36, 103, 114, 111, 117, 112>>
K_n == <<110>>
K_ndollar == <<110, 36>>
K_sum == <<36, 115, 117, 109>>
K_key == <<107, 101, 121>>
K_value == <<118, 97, 108, 117, 101>>

\* strings.HasPrefix(s, prefix)
HasPrefix(s, prefix) ==
    /\ Len(s) >= Len(prefix)
    /\ SubSeq(s, 1, Len(prefix)) = prefix

\* strconv.Itoa for n >= 0
RECURSIVE Itoa(_)
Itoa(n) ==
    IF n < 10 THEN <<48 + n>> ELSE Itoa(n \div 10) \o <<48 + (n % 10)>>

(***************************************************************************)
(* bsoncore: reading.                                                      *)
(***************************************************************************)
DropN(s, n) == SubSeq(s, n + 1, Len(s))

\* little-endian int32 (two's complement)
appendi32(n) ==
    << n % 256, (n \div 256) % 256, (n \div 65536) % 256, (n \div 16777216) % 256 >>

\* little-endian int64 of a value in the int32 range (sign-extended)
appendi64(n) ==
    appendi32(n) \o (IF n < 0 THEN <<255, 255, 255, 255>> ELSE <<0, 0, 0, 0>>)

\* the int32 held by the first four bytes of b (Len(b) >= 4)
readi32(b) ==
    b[1] + 256 * b[2] + 65536 * b[3]
      + 16777216 * (IF b[4] >= 128 THEN b[4] - 256 ELSE b[4])

\* bsoncore.ReadLength
ReadLength(src) ==
    IF Len(src) < 4
    THEN [ok |-> FALSE, length |-> 0, rem |-> src]
    ELSE [ok |-> readi32(src) >= 0, length |-> readi32(src), rem |-> DropN(src, 4)]

\* position (1-based) of the first 0x00 at or after index from; 0 when none
IndexByte0(src, from) ==
    LET Z == {i \in from..Len(src) : src[i] = 0}
    IN  IF Z = {} THEN 0 ELSE CHOOSE i \in Z : \A j \in Z : i <= j

\* bsoncore.valueLength: the length of a value of type t starting at src
valueLength(src, t) ==
    CASE t \in {TypeEmbeddedDocument, TypeArray} ->
           [ok |-> ReadLength(src).ok, length |-> ReadLength(src).length]
      [] t = TypeString ->
           [ok |-> ReadLength(src).ok, length |-> ReadLength(src).length + 4]
      [] t = TypeInt64 -> [ok |-> TRUE, length |-> 8]
      [] t = TypeInt32 -> [ok |-> TRUE, length |-> 4]
      [] t = TypeNull -> [ok |-> TRUE, length |-> 0]
      [] t = TypeObjectID -> [ok |-> TRUE, length |-> 12]
      [] OTHER -> [ok |-> FALSE, length |-> 0]

\* bsoncore.ReadElement
ReadElement(src) ==
    LET fail == [ok |-> FALSE, elem |-> <<>>, rem |-> src]
    IN  IF Len(src) < 1 THEN fail
        ELSE LET z == IndexByte0(src, 2)
             IN  IF z = 0 THEN fail
                 ELSE LET vl == valueLength(DropN(src, z), src[1])
                          elemLength == z + vl.length
                      IN  IF ~vl.ok \/ elemLength > Len(src) \/ elemLength < 0
                          THEN fail
                          ELSE [ok |-> TRUE,
                                elem |-> SubSeq(src, 1, elemLength),
                                rem |-> DropN(src, elemLength)]

\* Element.Key
ElemKey(elem) == SubSeq(elem, 2, IndexByte0(elem, 2) - 1)

\* Element.Value: the type tag and the value's bytes
ElemValue(elem) == [t |-> elem[1], data |-> DropN(elem, IndexByte0(elem, 2))]

\* Value.Validate: the value's bytes hold a whole value of its type
ValueValid(v) ==
    CASE v.t \in {TypeEmbeddedDocument, TypeArray} ->
           /\ ReadLength(v.data).ok
           /\ ReadLength(v.data).length >= 4
           /\ ReadLength(v.data).length <= Len(v.data)
      [] v.t = TypeString ->
           /\ ReadLength(v.data).ok
           /\ ReadLength(v.data).length >= 1
           /\ ReadLength(v.data).length + 4 <= Len(v.data)
           /\ v.data[ReadLength(v.data).length + 4] = 0
      [] v.t = TypeInt64 -> Len(v.data) >= 8
      [] v.t = TypeInt32 -> Len(v.data) >= 4
      [] v.t = TypeNull -> TRUE
      [] v.t = TypeObjectID -> Len(v.data) >= 12
      [] OTHER -> FALSE

\* Value.DocumentOK
DocumentOK(v) == v.t = TypeEmbeddedDocument /\ ValueValid(v)

RECURSIVE lookupLoop(_, _, _)
lookupLoop(rem, length, key) ==
    IF length <= 1 THEN [ok |-> FALSE, value |-> [t |-> 0, data |-> <<>>]]
    ELSE LET r == ReadElement(rem)
         IN  IF ~r.ok THEN [ok |-> FALSE, value |-> [t |-> 0, data |-> <<>>]]
             ELSE IF ElemKey(r.elem) = key
                  THEN [ok |-> TRUE, value |-> ElemValue(r.elem)]
                  ELSE lookupLoop(r.rem, length - Len(r.elem), key)

\* Document.LookupErr(key)
LookupErr(d, key) ==
    IF ~ReadLength(d).ok THEN [ok |-> FALSE, value |-> [t |-> 0, data |-> <<>>]]
    ELSE lookupLoop(ReadLength(d).rem, ReadLength(d).length - 4, key)

RECURSIVE indexLoop(_, _, _)
indexLoop(rem, length, index) ==
    IF length <= 1 THEN [ok |-> FALSE, elem |-> <<>>]
    ELSE LET r == ReadElement(rem)
         IN  IF ~r.ok THEN [ok |-> FALSE, elem |-> <<>>]
             ELSE IF index = 0 THEN [ok |-> TRUE, elem |-> r.elem]
                  ELSE indexLoop(r.rem, length - Len(r.elem), index - 1)

\* Document.IndexErr(index)
IndexErr(d, index) ==
    IF ~ReadLength(d).ok THEN [ok |-> FALSE, elem |-> <<>>]
    ELSE indexLoop(ReadLength(d).rem, ReadLength(d).length - 4, index)

RECURSIVE valuesLoop(_, _, _)
valuesLoop(rem, length, vals) ==
    IF length <= 1 THEN [ok |-> TRUE, vals |-> vals]
    ELSE LET r == ReadElement(rem)
         IN  IF ~r.ok \/ ~ValueValid(ElemValue(r.elem))
             THEN [ok |-> FALSE, vals |-> vals]
             ELSE valuesLoop(r.rem, length - Len(r.elem), Append(vals, ElemValue(r.elem)))

\* Document.Values / Array.Values: the values up to the first invalid point,
\* and whether the whole enumeration succeeded
Values(d) ==
    IF ~ReadLength(d).ok THEN [ok |-> FALSE, vals |-> <<>>]
    ELSE valuesLoop(ReadLength(d).rem, ReadLength(d).length - 4, <<>>)

RECURSIVE elementsLoop(_, _, _)
elementsLoop(rem, length, elems) ==
    IF length <= 1 THEN [ok |-> TRUE, elems |-> elems]
    ELSE LET r == ReadElement(rem)
         IN  IF ~r.ok \/ ~ValueValid(ElemValue(r.elem))
             THEN [ok |-> FALSE, elems |-> elems]
             ELSE elementsLoop(r.rem, length - Len(r.elem), Append(elems, r.elem))

\* Document.Elements
Elements(d) ==
    IF ~ReadLength(d).ok THEN [ok |-> FALSE, elems |-> <<>>]
    ELSE elementsLoop(ReadLength(d).rem, ReadLength(d).length - 4, <<>>)

RECURSIVE validateLoop(_, _, _, _)
validateLoop(rem, length, isArray, keyNum) ==
    IF length <= 1 THEN Len(rem) >= 1 /\ rem[1] = 0
    ELSE LET r == ReadElement(rem)
         IN  /\ r.ok
             /\ ValueValid(ElemValue(r.elem))
             /\ isArray => ElemKey(r.elem) = Itoa(keyNum)
             /\ validateLoop(r.rem, length - Len(r.elem), isArray, keyNum + 1)

\* Document.Validate
ValidateDocument(d) ==
    /\ ReadLength(d).ok
    /\ ReadLength(d).length >= 5
    /\ ReadLength(d).length <= Len(d)
    /\ d[ReadLength(d).length] = 0
    /\ validateLoop(ReadLength(d).rem, ReadLength(d).length - 4, FALSE, 0)

\* Array.Validate: a valid document whose keys are "0", "1", ... in order
ValidateArray(a) ==
    /\ ReadLength(a).ok
    /\ ReadLength(a).length >= 5
    /\ ReadLength(a).length <= Len(a)
    /\ a[ReadLength(a).length] = 0
    /\ validateLoop(ReadLength(a).rem, ReadLength(a).length - 4, TRUE, 0)

(***************************************************************************)
(* bsoncore: building.                                                     *)
(***************************************************************************)
\* bsoncore.AppendHeader
AppendHeader(dst, t, key) == dst \o <<t>> \o key \o <<0>>

\* bsoncore.ReserveLength: the index of the reserved slot and the grown buffer
ReserveLength(dst) == [idx |-> Len(dst), dst |-> dst \o <<0, 0, 0, 0>>]

\* bsoncore.UpdateLength: overwrite the int32 at (0-based) index with length
UpdateLength(dst, index, length) ==
    [i \in 1..Len(dst) |->
        IF i > index /\ i <= index + 4 THEN appendi32(length)[i - index] ELSE dst[i]]

AppendObjectIDElement(dst, key, oid) == AppendHeader(dst, TypeObjectID, key) \o oid

AppendInt32Element(dst, key, i32) == AppendHeader(dst, TypeInt32, key) \o appendi32(i32)

AppendInt64Element(dst, key, i64) == AppendHeader(dst, TypeInt64, key) \o appendi64(i64)

AppendDocumentElement(dst, key, doc) == AppendHeader(dst, TypeEmbeddedDocument, key) \o doc

AppendDocumentElementStart(dst, key) ==
    ReserveLength(AppendHeader(dst, TypeEmbeddedDocument, key))

AppendArrayStart(dst) == ReserveLength(dst)

\* bsoncore.AppendDocumentEnd: terminate and patch the length reserved at index
AppendDocumentEnd(dst, index) ==
    UpdateLength(dst \o <<0>>, index, Len(dst) + 1 - index)

AppendArrayEnd(dst, index) == AppendDocumentEnd(dst, index)

(***************************************************************************)
(* Values before encoding: an element is [key, val], a value is [t, v]     *)
(* with v a sequence (an int32/int64 as <<n>>, an ObjectID as its 12       *)
(* bytes, a string as its characters, a document as its elements, an array *)
(* as its values).                                                         *)
(***************************************************************************)
VNull == [t |-> TypeNull, v |-> <<>>]
VInt32(n) == [t |-> TypeInt32, v |-> <<n>>]
VInt64(n) == [t |-> TypeInt64, v |-> <<n>>]
VOid(b) == [t |-> TypeObjectID, v |-> b]
VString(s) == [t |-> TypeString, v |-> s]
VDoc(elems) == [t |-> TypeEmbeddedDocument, v |-> elems]
VArr(vals) == [t |-> TypeArray, v |-> vals]
El(k, val) == [key |-> k, val |-> val]

\* the elements of an array: its values keyed "0", "1", ...
ArrayElems(vals) == [i \in 1..Len(vals) |-> El(Itoa(i - 1), vals[i])]

\* bson.Encoder: the BSON bytes of a document given as its elements
RECURSIVE EncodeDoc(_), EncodeElems(_), EncodeValue(_)
EncodeValue(val) ==
    CASE val.t = TypeNull -> <<>>
      [] val.t = TypeInt32 -> appendi32(val.v[1])
      [] val.t = TypeInt64 -> appendi64(val.v[1])
      [] val.t = TypeObjectID -> val.v
      [] val.t = TypeString -> appendi32(Len(val.v) + 1) \o val.v \o <<0>>
      [] val.t = TypeEmbeddedDocument -> EncodeDoc(val.v)
      [] val.t = TypeArray -> EncodeDoc(ArrayElems(val.v))

EncodeElems(elems) ==
    IF elems = <<>> THEN <<>>
    ELSE AppendHeader(<<>>, Head(elems).val.t, Head(elems).key)
           \o EncodeValue(Head(elems).val) \o EncodeElems(Tail(elems))

EncodeDoc(elems) ==
    appendi32(Len(EncodeElems(elems)) + 5) \o EncodeElems(elems) \o <<0>>

EncodeArray(vals) == EncodeDoc(ArrayElems(vals))

\* bson.Decoder: the value held by the bytes of a valid value of type t
RECURSIVE DecodeValue(_), DecodeElems(_)
DecodeValue(bv) ==
    CASE bv.t = TypeNull -> VNull
      [] bv.t = TypeInt32 -> VInt32(readi32(bv.data))
      [] bv.t = TypeInt64 -> VInt64(readi32(bv.data))
      [] bv.t = TypeObjectID -> VOid(SubSeq(bv.data, 1, 12))
      [] bv.t = TypeString -> VString(SubSeq(bv.data, 5, 3 + readi32(bv.data)))
      [] bv.t = TypeEmbeddedDocument -> VDoc(DecodeElems(Elements(bv.data).elems))
      [] bv.t = TypeArray ->
           VArr([i \in 1..Len(Values(bv.data).vals) |-> DecodeValue(Values(bv.data).vals[i])])

DecodeElems(es) ==
    [i \in 1..Len(es) |-> El(ElemKey(es[i]), DecodeValue(ElemValue(es[i])))]

\* getDecoder(doc).Decode(&struct{ID interface{} `bson:"_id"`}): fails on a
\* malformed document, else yields the value stored under "_id"
DecodeID(doc) ==
    IF ~ValidateDocument(doc) \/ ~LookupErr(doc, K_id).ok
    THEN [ok |-> FALSE, id |-> VNull]
    ELSE [ok |-> TRUE, id |-> DecodeValue(LookupErr(doc, K_id).value)]

(***************************************************************************)
(* Go values (interface{}): kind names the dynamic type.                   *)
(*   "Nil"            untyped nil                                          *)
(*   "D", "Struct"    bson.D / any struct or map: elems                    *)
(*   "Raw", "CoreDocument", "Bytes", "CoreArray"                           *)
(*                    bson.Raw, bsoncore.Document, []byte, bsoncore.Array: *)
(*                    bytes (elems / avals: what was encoded, when wf)     *)
(*   "Marshaler"      MarshalBSON() returns (bytes, merr)                  *)
(*   "ValueMarshaler" MarshalBSONValue() returns (btype, bytes, merr)      *)
(*   "Slice", "Array" any other slice or array: items                      *)
(*   "Unencodable"    a non-sequence value the encoder rejects (chan, int) *)
(***************************************************************************)
GoVal(kind) ==
    [kind |-> kind, elems |-> <<>>, avals |-> <<>>, bytes |-> <<>>, wf |-> FALSE,
     merr |-> FALSE, btype |-> 0, items |-> <<>>]

GoNil == GoVal("Nil")
GoUnencodable == GoVal("Unencodable")
GoDoc(kind, elems) == [GoVal(kind) EXCEPT !.elems = elems, !.wf = TRUE]
GoDocBytes(kind, elems) ==
    [GoVal(kind) EXCEPT !.elems = elems, !.bytes = EncodeDoc(elems), !.wf = TRUE]
GoArrBytes(kind, vals) ==
    [GoVal(kind) EXCEPT !.avals = vals, !.bytes = EncodeArray(vals), !.wf = TRUE]
GoRawBytes(kind, bytes) == [GoVal(kind) EXCEPT !.bytes = bytes]
GoSeq(kind, items) == [GoVal(kind) EXCEPT !.items = items]

\* bson.Encoder.Encode(val): documents encode to their bytes, pre-encoded
\* documents are copied element by element (and so validated), anything that
\* is not a document is rejected
Encode(val) ==
    CASE val.kind \in {"D", "Struct"} -> [ok |-> TRUE, doc |-> EncodeDoc(val.elems)]
      [] val.kind \in {"Raw", "CoreDocument"} ->
           IF ValidateDocument(val.bytes) /\ ReadLength(val.bytes).length = Len(val.bytes)
           THEN [ok |-> TRUE, doc |-> val.bytes]
           ELSE [ok |-> FALSE, doc |-> <<>>]
      [] val.kind = "Marshaler" ->
           IF ~val.merr /\ ValidateDocument(val.bytes)
                /\ ReadLength(val.bytes).length = Len(val.bytes)
           THEN [ok |-> TRUE, doc |-> val.bytes]
           ELSE [ok |-> FALSE, doc |-> <<>>]
      [] OTHER -> [ok |-> FALSE, doc |-> <<>>]

\* marshal: nil is rejected, a []byte is marshalled as a bson.Raw
marshal(val) ==
    IF val.kind = "Nil" THEN [ok |-> FALSE, doc |-> <<>>]
    ELSE IF val.kind = "Bytes" THEN Encode([val EXCEPT !.kind = "Raw"])
    ELSE Encode(val)

(***************************************************************************)
(* mongo.go: ensureID.                                                     *)
(***************************************************************************)
\* bytes reserved for the "_id" element: type (1) + "_id" (3) + 0x00 (1) + ObjectID (12)
extraSpace == 17
\* width of the document length header
int32Len == 4

NilObjectID == <<0, 0, 0, 0, 0, 0, 0, 0, 0, 0, 0, 0>>

\* ObjectID.IsZero
IsZero(oid) == oid = NilObjectID

\* ensureID that appends the old document with its length header still on
ensureID_keepsOldHeader(doc, oid, newOid) ==
    IF LookupErr(doc, K_id).ok
    THEN IF ~DecodeID(doc).ok
         THEN [status |-> "err", doc |-> <<>>, id |-> VNull]
         ELSE [status |-> "ok", doc |-> doc, id |-> DecodeID(doc).id]
    ELSE LET oid2 == IF IsZero(oid) THEN newOid ELSE oid
             whole == AppendObjectIDElement(ReserveLength(<<>>).dst, K_id, oid2) \o doc
         IN  [status |-> "ok", doc |-> UpdateLength(whole, 0, Len(whole)), id |-> VOid(oid2)]

\* ensureID that reports the supplied ObjectID even when the document has its own "_id"
ensureID_returnsSuppliedOid(doc, oid, newOid) ==
    IF LookupErr(doc, K_id).ok
    THEN IF ~DecodeID(doc).ok
         THEN [status |-> "err", doc |-> <<>>, id |-> VNull]
         ELSE [status |-> "ok", doc |-> doc, id |-> VOid(oid)]
    ELSE LET oid2 == IF IsZero(oid) THEN newOid ELSE oid
             withID == AppendObjectIDElement(ReserveLength(<<>>).dst, K_id, oid2)
         IN  IF Len(doc) < int32Len
             THEN [status |-> "panic", doc |-> <<>>, id |-> VNull]
             ELSE LET whole == withID \o DropN(doc, int32Len)
                  IN  [status |-> "ok",
                       doc |-> UpdateLength(whole, 0, Len(whole)),
                       id |-> VOid(oid2)]

\* ensureID(doc, oid): newOid is what bson.NewObjectID() returns if called.
\* status "panic": olddoc[int32Len:] on a buffer shorter than the header is a
\* slice-bounds run-time panic.
ensureID(doc, oid, newOid) ==
    IF LookupErr(doc, K_id).ok
    THEN IF ~DecodeID(doc).ok
         THEN [status |-> "err", doc |-> <<>>, id |-> VNull]
         ELSE [status |-> "ok", doc |-> doc, id |-> DecodeID(doc).id]
    ELSE LET olddoc == doc
             oid2 == IF IsZero(oid) THEN newOid ELSE oid
             withID == AppendObjectIDElement(ReserveLength(<<>>).dst, K_id, oid2)
         IN  IF Len(olddoc) < int32Len
             THEN [status |-> "panic", doc |-> <<>>, id |-> VNull]
             ELSE LET whole == withID \o DropN(olddoc, int32Len)
                  IN  [status |-> "ok",
                       doc |-> UpdateLength(whole, 0, Len(whole)),
                       id |-> VOid(oid2)]

(***************************************************************************)
(* mongo.go: ensureDollarKey, ensureNoDollarKey.                           *)
(***************************************************************************)
\* ensureDollarKey that lets a document without elements through
ensureDollarKey_acceptsEmpty(doc) ==
    IF ~IndexErr(doc, 0).ok
    THEN "nil"
    ELSE IF ~HasPrefix(ElemKey(IndexErr(doc, 0).elem), DollarSign)
         THEN "update document must contain key beginning with '$'"
         ELSE "nil"

ensureDollarKey(doc) ==
    IF ~IndexErr(doc, 0).ok
    THEN "update document must have at least one element"
    ELSE IF ~HasPrefix(ElemKey(IndexErr(doc, 0).elem), DollarSign)
         THEN "update document must contain key beginning with '$'"
         ELSE "nil"

ensureNoDollarKey(doc) ==
    IF IndexErr(doc, 0).ok /\ HasPrefix(ElemKey(IndexErr(doc, 0).elem), DollarSign)
    THEN "replacement document cannot contain keys beginning with '$'"
    ELSE "nil"

(***************************************************************************)
(* reflect: Kind and Len of a Go value, and its i-th element (0-based).    *)
(***************************************************************************)
\* reflect.Value.Kind() is Slice or Array
IsSliceOrArray(val) ==
    val.kind \in {"D", "Raw", "CoreDocument", "CoreArray", "Bytes", "Slice", "Array"}

\* reflect.Value.Len()
reflectLen(val) ==
    CASE val.kind = "D" -> Len(val.elems)
      [] val.kind \in {"Slice", "Array"} -> Len(val.items)
      [] OTHER -> Len(val.bytes)

\* reflect.Value.Index(idx).Interface(): an item of a slice; an element of a
\* bson.D is a bson.E, a struct with the fields Key and Value; an element of
\* a byte slice is a uint8, which is no document
reflectIndex(val, idx) ==
    CASE val.kind \in {"Slice", "Array"} -> val.items[idx + 1]
      [] val.kind = "D" ->
           GoDoc("Struct", <<El(K_key, VString(val.elems[idx + 1].key)),
                             El(K_value, val.elems[idx + 1].val)>>)
      [] OTHER -> GoUnencodable

(***************************************************************************)
(* mongo.go: marshalAggregatePipeline.                                     *)
(***************************************************************************)
\* doc.IndexErr(0) succeeds and the key is "$out" or "$merge"
firstKeyIsOutputStage(doc) ==
    /\ IndexErr(doc, 0).ok
    /\ \/ ElemKey(IndexErr(doc, 0).elem) = K_out
       \/ ElemKey(IndexErr(doc, 0).elem) = K_merge

\* the last of the enumerated values is a document naming an output stage
lastValueIsOutputStage(values) ==
    /\ Len(values) > 0
    /\ DocumentOK(values[Len(values)])
    /\ firstKeyIsOutputStage(values[Len(values)].data)

aggErr == [status |-> "err", doc |-> <<>>, hasOutputStage |-> FALSE]

\* the loop over the stages of a generic slice or array
RECURSIVE aggregateLoop(_, _, _, _)
aggregateLoop(val, idx, arr, hasOutputStage) ==
    IF idx >= reflectLen(val)
    THEN [status |-> "ok", doc |-> AppendArrayEnd(arr, 0), hasOutputStage |-> hasOutputStage]
    ELSE LET m == marshal(reflectIndex(val, idx))
         IN  IF ~m.ok THEN aggErr
             ELSE aggregateLoop(val, idx + 1,
                                AppendDocumentElement(arr, Itoa(idx), m.doc),
                                IF idx = reflectLen(val) - 1
                                THEN firstKeyIsOutputStage(m.doc)
                                ELSE hasOutputStage)

\* marshalAggregatePipeline without the single-document guard
marshalAggregatePipeline_allowsSingleDocument(pipeline) ==
    IF pipeline.kind = "ValueMarshaler"
    THEN IF pipeline.merr THEN aggErr
         ELSE IF pipeline.btype # TypeArray THEN aggErr
         ELSE [status |-> "ok", doc |-> pipeline.bytes,
               hasOutputStage |-> lastValueIsOutputStage(Values(pipeline.bytes).vals)]
    ELSE IF ~IsSliceOrArray(pipeline) THEN aggErr
    ELSE IF pipeline.kind = "CoreArray"
         THEN IF ~ValidateArray(pipeline.bytes) THEN aggErr
              ELSE IF ~Values(pipeline.bytes).ok THEN aggErr
              ELSE [status |-> "ok", doc |-> pipeline.bytes,
                    hasOutputStage |-> lastValueIsOutputStage(Values(pipeline.bytes).vals)]
    ELSE aggregateLoop(pipeline, 0, AppendArrayStart(<<>>).dst, FALSE)

marshalAggregatePipeline(pipeline) ==
    IF pipeline.kind = "ValueMarshaler"
    THEN IF pipeline.merr THEN aggErr
         ELSE IF pipeline.btype # TypeArray THEN aggErr
         ELSE [status |-> "ok", doc |-> pipeline.bytes,
               hasOutputStage |-> lastValueIsOutputStage(Values(pipeline.bytes).vals)]
    ELSE IF ~IsSliceOrArray(pipeline) THEN aggErr
    ELSE IF pipeline.kind \in {"D", "Raw", "CoreDocument"} /\ reflectLen(pipeline) > 0
         THEN aggErr
    ELSE IF pipeline.kind = "CoreArray"
         THEN IF ~ValidateArray(pipeline.bytes) THEN aggErr
              ELSE IF ~Values(pipeline.bytes).ok THEN aggErr
              ELSE [status |-> "ok", doc |-> pipeline.bytes,
                    hasOutputStage |-> lastValueIsOutputStage(Values(pipeline.bytes).vals)]
    ELSE aggregateLoop(pipeline, 0, AppendArrayStart(<<>>).dst, FALSE)

(***************************************************************************)
(* mongo.go: marshalUpdateValue.  The result carries u.Type, u.Data, the   *)
(* error ("nil" when none) and, for the record, the indexes of the items   *)
(* handed to marshal, in call order.                                       *)
(***************************************************************************)
documentCheckerFunc(dollarKeysAllowed, doc) ==
    IF dollarKeysAllowed THEN ensureDollarKey(doc) ELSE ensureNoDollarKey(doc)

UpdateResult(type, data, err, calls) ==
    [type |-> type, data |-> data, err |-> err, calls |-> calls]

\* the update loop running the structural check on the first item only
RECURSIVE updateLoop_checksFirstOnly(_, _, _, _, _)
updateLoop_checksFirstOnly(val, dollarKeysAllowed, idx, arr, calls) ==
    IF idx >= reflectLen(val)
    THEN UpdateResult(TypeArray, AppendArrayEnd(arr, 0), "nil", calls)
    ELSE LET m == marshal(reflectIndex(val, idx))
         IN  IF ~m.ok
             THEN UpdateResult(TypeArray, <<>>, "marshal", Append(calls, idx))
             ELSE IF idx = 0 /\ documentCheckerFunc(dollarKeysAllowed, m.doc) # "nil"
                  THEN UpdateResult(TypeArray, <<>>,
                                    documentCheckerFunc(dollarKeysAllowed, m.doc),
                                    Append(calls, idx))
                  ELSE updateLoop_checksFirstOnly(val, dollarKeysAllowed, idx + 1,
                                  AppendDocumentElement(arr, Itoa(idx), m.doc),
                                  Append(calls, idx))

\* the loop over the items of a pipeline-style update
RECURSIVE updateLoop(_, _, _, _, _)
updateLoop(val, dollarKeysAllowed, idx, arr, calls) ==
    IF idx >= reflectLen(val)
    THEN UpdateResult(TypeArray, AppendArrayEnd(arr, 0), "nil", calls)
    ELSE LET m == marshal(reflectIndex(val, idx))
         IN  IF ~m.ok
             THEN UpdateResult(TypeArray, <<>>, "marshal", Append(calls, idx))
             ELSE IF documentCheckerFunc(dollarKeysAllowed, m.doc) # "nil"
                  THEN UpdateResult(TypeArray, <<>>,
                                    documentCheckerFunc(dollarKeysAllowed, m.doc),
                                    Append(calls, idx))
                  ELSE updateLoop(val, dollarKeysAllowed, idx + 1,
                                  AppendDocumentElement(arr, Itoa(idx), m.doc),
                                  Append(calls, idx))

marshalUpdateValue(update, dollarKeysAllowed) ==
    CASE update.kind = "Nil" -> UpdateResult(0, <<>>, "ErrNilDocument", <<>>)
      [] update.kind = "D" ->
           IF ~marshal(update).ok
           THEN UpdateResult(TypeEmbeddedDocument, <<>>, "marshal", <<>>)
           ELSE UpdateResult(TypeEmbeddedDocument, marshal(update).doc,
                             documentCheckerFunc(dollarKeysAllowed, marshal(update).doc), <<>>)
      [] update.kind \in {"Raw", "CoreDocument", "Bytes"} ->
           UpdateResult(TypeEmbeddedDocument, update.bytes,
                        documentCheckerFunc(dollarKeysAllowed, update.bytes), <<>>)
      [] update.kind = "Marshaler" ->
           IF update.merr
           THEN UpdateResult(TypeEmbeddedDocument, update.bytes, "MarshalBSON", <<>>)
           ELSE UpdateResult(TypeEmbeddedDocument, update.bytes,
                             documentCheckerFunc(dollarKeysAllowed, update.bytes), <<>>)
      [] update.kind = "ValueMarshaler" ->
           IF update.merr
           THEN UpdateResult(update.btype, update.bytes, "MarshalBSONValue", <<>>)
           ELSE IF update.btype # TypeArray /\ update.btype # TypeEmbeddedDocument
                THEN UpdateResult(update.btype, update.bytes, "ValueMarshaler type", <<>>)
                ELSE UpdateResult(update.btype, update.bytes, "nil", <<>>)
      [] OTHER ->
           IF ~IsSliceOrArray(update)
           THEN IF ~marshal(update).ok
                THEN UpdateResult(TypeEmbeddedDocument, <<>>, "marshal", <<>>)
                ELSE UpdateResult(TypeEmbeddedDocument, marshal(update).doc,
                                  documentCheckerFunc(dollarKeysAllowed, marshal(update).doc),
                                  <<>>)
           ELSE updateLoop(update, dollarKeysAllowed, 0, AppendArrayStart(<<>>).dst, <<>>)

(***************************************************************************)
(* mongo.go: countDocumentsAggregatePipeline.  cargs is *options.          *)
(* CountOptions: isNil, and Skip / Limit as <<>> (nil) or <<n>>.           *)
(***************************************************************************)
\* {"<index>": {"<key>": int64}} appended to arr
appendInt64Stage(arr, index, key, i64) ==
    LET d == AppendDocumentElementStart(arr, Itoa(index))
    IN  AppendDocumentEnd(AppendInt64Element(d.dst, key, i64), d.idx)

\* {"<index>": {"$group": {"_id": 1, "n": {"$sum": 1}}}} appended to arr
appendGroupStage(arr, index) ==
    LET d == AppendDocumentElementStart(arr, Itoa(index))
        i == AppendDocumentElementStart(d.dst, K_group)
        ii == AppendDocumentElementStart(AppendInt32Element(i.dst, K_id, 1), K_n)
        sum == AppendDocumentEnd(AppendInt32Element(ii.dst, K_sum, 1), ii.idx)
    IN  AppendDocumentEnd(AppendDocumentEnd(sum, i.idx), d.idx)

\* countDocumentsAggregatePipeline that advances the index past an omitted $skip
countDocumentsAggregatePipeline_gapForSkip(filter, cargs) ==
    IF ~marshal(filter).ok THEN [status |-> "err", doc |-> <<>>]
    ELSE LET a == AppendArrayStart(<<>>)
             d == AppendDocumentElementStart(a.dst, Itoa(0))
             match == AppendDocumentEnd(
                          AppendDocumentElement(d.dst, K_match, marshal(filter).doc), d.idx)
             hasSkip == ~cargs.isNil /\ cargs.skip # <<>>
             hasLimit == ~cargs.isNil /\ cargs.limit # <<>>
             afterSkip == IF hasSkip
                          THEN appendInt64Stage(match, 1, K_skip, cargs.skip[1])
                          ELSE match
             afterLimit == IF hasLimit
                           THEN appendInt64Stage(afterSkip, 2, K_limit, cargs.limit[1])
                           ELSE afterSkip
             index2 == IF hasLimit THEN 3 ELSE 2
         IN  [status |-> "ok",
              doc |-> AppendArrayEnd(appendGroupStage(afterLimit, index2), a.idx)]

countDocumentsAggregatePipeline(filter, cargs) ==
    IF ~marshal(filter).ok THEN [status |-> "err", doc |-> <<>>]
    ELSE LET a == AppendArrayStart(<<>>)
             d == AppendDocumentElementStart(a.dst, Itoa(0))
             match == AppendDocumentEnd(
                          AppendDocumentElement(d.dst, K_match, marshal(filter).doc), d.idx)
             hasSkip == ~cargs.isNil /\ cargs.skip # <<>>
             hasLimit == ~cargs.isNil /\ cargs.limit # <<>>
             afterSkip == IF hasSkip
                          THEN appendInt64Stage(match, 1, K_skip, cargs.skip[1])
                          ELSE match
             index1 == IF hasSkip THEN 2 ELSE 1
             afterLimit == IF hasLimit
                           THEN appendInt64Stage(afterSkip, index1, K_limit, cargs.limit[1])
                           ELSE afterSkip
             index2 == IF hasLimit THEN index1 + 1 ELSE index1
         IN  [status |-> "ok",
              doc |-> AppendArrayEnd(appendGroupStage(afterLimit, index2), a.idx)]

(***************************************************************************)
(* Inputs.                                                                 *)
(***************************************************************************)
SeqsUpTo(S, n) == UNION {[1..k -> S] : k \in 0..n}

DistinctKeys(elems) ==
    \A i, j \in 1..Len(elems) : i # j => elems[i].key # elems[j].key

\* documents of at most n elements drawn from E, no key twice
DocsOver(E, n) == {d \in SeqsUpTo(E, n) : DistinctKeys(d)}

\* the proper prefixes of a buffer: what is left of it when it is cut short
Prefixes(b) == {SubSeq(b, 1, k) : k \in 0..(Len(b) - 1)}

OidA == <<1, 2, 3, 4, 5, 6, 7, 8, 9, 10, 11, 12>>
OidB == <<101, 102, 103, 104, 105, 106, 107, 108, 109, 110, 111, 112>>
\* what bson.NewObjectID() may return: never the zero ObjectID
FreshOids == {<<201, 1, 1, 1, 2, 2, 2, 2, 2, 0, 0, 1>>, <<201, 1, 1, 2, 2, 2, 2, 2, 2, 0, 0, 2>>}

NoRet == [status |-> "none"]

\* ---- ensureID
IDElems ==
    {El(k, v) : k \in {K_id, K_name, K_x},
                v \in {VNull, VInt32(7), VOid(OidA), VDoc(<<El(K_id, VNull)>>)}}

IDCutDocs ==
    { <<>>,
      <<El(K_name, VNull)>>,
      <<El(K_id, VInt32(7)), El(K_x, VNull)>>,
      <<El(K_x, VNull), El(K_id, VOid(OidA))>> }

EnsureIDInputs ==
    {[doc |-> GoDocBytes("CoreDocument", d), oid |-> o] :
        d \in DocsOver(IDElems, MaxElems), o \in {NilObjectID, OidB}}
    \cup
    {[doc |-> GoRawBytes("CoreDocument", b), oid |-> o] :
        b \in UNION {Prefixes(EncodeDoc(d)) : d \in IDCutDocs}, o \in {NilObjectID, OidB}}

InitEnsureID ==
    /\ pc = "call"
    /\ op = "ensureID"
    /\ args \in EnsureIDInputs
    /\ ret = NoRet

DoEnsureID ==
    /\ pc = "call"
    /\ op = "ensureID"
    /\ \E newOid \in FreshOids : ret' = ensureID(args.doc.bytes, args.oid, newOid)
    /\ pc' = "done"
    /\ UNCHANGED <<op, args>>

SpecEnsureID == InitEnsureID /\ [][DoEnsureID]_vars

\* ---- ensureDollarKey, ensureNoDollarKey
DollarElems ==
    {El(k, v) : k \in {K_set, K_name, K_empty, DollarSign, K_ndollar},
                v \in {VNull, VInt32(1)}}

DollarCutDocs ==
    { <<>>,
      <<El(K_set, VInt32(1))>>,
      <<El(K_name, VNull), El(K_set, VNull)>>,
      <<El(K_set, VNull), El(K_name, VInt32(1))>> }

DollarKeyInputs ==
    {[doc |-> GoDocBytes("CoreDocument", d)] : d \in DocsOver(DollarElems, MaxElems)}
    \cup
    {[doc |-> GoRawBytes("CoreDocument", b)] :
        b \in UNION {Prefixes(EncodeDoc(d)) : d \in DollarCutDocs}}

InitDollarKey ==
    /\ pc = "call"
    /\ op \in {"ensureDollarKey", "ensureNoDollarKey"}
    /\ args \in DollarKeyInputs
    /\ ret = NoRet

DoEnsureDollarKey ==
    /\ pc = "call"
    /\ op = "ensureDollarKey"
    /\ ret' = [err |-> ensureDollarKey(args.doc.bytes)]
    /\ pc' = "done"
    /\ UNCHANGED <<op, args>>

DoEnsureNoDollarKey ==
    /\ pc = "call"
    /\ op = "ensureNoDollarKey"
    /\ ret' = [err |-> ensureNoDollarKey(args.doc.bytes)]
    /\ pc' = "done"
    /\ UNCHANGED <<op, args>>

NextDollarKey == DoEnsureDollarKey \/ DoEnsureNoDollarKey

SpecDollarKey == InitDollarKey /\ [][NextDollarKey]_vars

\* ---- marshalAggregatePipeline
StageDocs ==
    { <<>>,
      <<El(K_out, VNull)>>,
      <<El(K_merge, VNull)>>,
      <<El(K_match, VNull)>>,
      <<El(K_outx, VNull)>>,
      <<El(K_match, VNull), El(K_out, VNull)>> }

\* the values of a pre-encoded array: stage documents and a non-document
StageVals == {VDoc(d) : d \in StageDocs} \cup {VInt32(7)}

StageItems ==
    {GoDoc("D", d) : d \in StageDocs}
    \cup {GoNil, GoUnencodable,
          GoDocBytes("Bytes", <<El(K_merge, VNull)>>),
          GoRawBytes("Bytes", <<5, 0, 0>>)}

ArrayCutVals ==
    { <<VDoc(<<El(K_out, VNull)>>), VDoc(<<El(K_match, VNull)>>)>>,
      <<VDoc(<<El(K_match, VNull)>>), VDoc(<<El(K_out, VNull)>>)>>,
      <<VDoc(<<El(K_merge, VNull)>>)>> }

CutArrays == UNION {Prefixes(EncodeArray(a)) : a \in ArrayCutVals}

PipelineInputs ==
    {[GoArrBytes(k, a) EXCEPT !.btype = IF k = "ValueMarshaler" THEN TypeArray ELSE 0] :
        k \in {"ValueMarshaler", "CoreArray"}, a \in SeqsUpTo(StageVals, MaxStages)}
    \cup
    {[GoRawBytes(k, b) EXCEPT !.btype = IF k = "ValueMarshaler" THEN TypeArray ELSE 0] :
        k \in {"ValueMarshaler", "CoreArray"}, b \in CutArrays}
    \cup
    {[GoDocBytes("ValueMarshaler", d) EXCEPT !.btype = t, !.merr = e] :
        d \in {<<El(K_out, VNull)>>}, t \in {TypeEmbeddedDocument, TypeString, TypeArray},
        e \in BOOLEAN}
    \cup
    {GoDocBytes("CoreArray", <<El(K_name, VDoc(<<El(K_out, VNull)>>))>>)}
    \cup
    {GoDoc("D", d) : d \in StageDocs}
    \cup
    {GoDocBytes(k, d) : k \in {"Raw", "CoreDocument", "Bytes"}, d \in {<<>>, <<El(K_out, VNull)>>}}
    \cup
    {GoRawBytes(k, <<>>) : k \in {"Raw", "CoreDocument", "Bytes"}}
    \cup
    {GoSeq(k, items) : k \in {"Slice", "Array"}, items \in SeqsUpTo(StageItems, MaxStages)}
    \cup
    {GoNil, GoUnencodable, GoDoc("Struct", <<El(K_out, VNull)>>),
     [GoDocBytes("Marshaler", <<El(K_out, VNull)>>) EXCEPT !.merr = FALSE]}

InitPipeline ==
    /\ pc = "call"
    /\ op = "marshalAggregatePipeline"
    /\ args \in {[pipeline |-> p] : p \in PipelineInputs}
    /\ ret = NoRet

DoMarshalAggregatePipeline ==
    /\ pc = "call"
    /\ op = "marshalAggregatePipeline"
    /\ ret' = marshalAggregatePipeline(args.pipeline)
    /\ pc' = "done"
    /\ UNCHANGED <<op, args>>

SpecPipeline == InitPipeline /\ [][DoMarshalAggregatePipeline]_vars

\* ---- marshalUpdateValue
UpdateDocs ==
    { <<>>,
      <<El(K_set, VNull)>>,
      <<El(K_name, VNull)>>,
      <<El(K_name, VNull), El(K_set, VNull)>> }

UpdateItems ==
    {GoDoc("D", d) : d \in UpdateDocs}
    \cup {GoNil, GoUnencodable,
          GoDocBytes("Bytes", <<El(K_set, VInt32(1))>>),
          GoRawBytes("Bytes", <<5, 0, 0>>)}

UpdateInputs ==
    {GoDoc(k, d) : k \in {"D", "Struct"}, d \in DocsOver({El(k2, VNull) : k2 \in {K_set, K_name, K_x}}, MaxElems)}
    \cup
    {GoDocBytes(k, d) : k \in {"Raw", "CoreDocument", "Bytes"}, d \in UpdateDocs}
    \cup
    {GoRawBytes(k, b) : k \in {"Raw", "CoreDocument", "Bytes"},
                        b \in Prefixes(EncodeDoc(<<El(K_set, VNull)>>))}
    \cup
    {[GoDocBytes("Marshaler", d) EXCEPT !.merr = e] : d \in UpdateDocs, e \in BOOLEAN}
    \cup
    {[GoDocBytes("ValueMarshaler", d) EXCEPT !.merr = e, !.btype = t] :
        d \in UpdateDocs, e \in BOOLEAN, t \in {TypeEmbeddedDocument, TypeString}}
    \cup
    {[GoArrBytes("ValueMarshaler", <<VDoc(d)>>) EXCEPT !.btype = TypeArray] : d \in UpdateDocs}
    \cup
    {GoSeq(k, items) : k \in {"Slice", "Array"}, items \in SeqsUpTo(UpdateItems, MaxStages)}
    \cup
    {GoNil, GoUnencodable}

InitUpdate ==
    /\ pc = "call"
    /\ op = "marshalUpdateValue"
    /\ args \in {[update |-> u, dollarKeysAllowed |-> b] : u \in UpdateInputs, b \in BOOLEAN}
    /\ ret = NoRet

DoMarshalUpdateValue ==
    /\ pc = "call"
    /\ op = "marshalUpdateValue"
    /\ ret' = marshalUpdateValue(args.update, args.dollarKeysAllowed)
    /\ pc' = "done"
    /\ UNCHANGED <<op, args>>

SpecUpdate == InitUpdate /\ [][DoMarshalUpdateValue]_vars

\* ---- countDocumentsAggregatePipeline
CountFilters ==
    {GoDoc(k, d) : k \in {"D", "Struct"},
                   d \in DocsOver({El(k2, v) : k2 \in {K_x, K_name}, v \in {VNull, VInt32(1)}}, MaxElems)}
    \cup {GoNil, GoUnencodable,
          GoDocBytes("Bytes", <<El(K_x, VInt32(1))>>),
          GoRawBytes("Bytes", <<5, 0, 0>>)}

CountArgs ==
    {[isNil |-> TRUE, skip |-> <<>>, limit |-> <<>>]}
    \cup
    {[isNil |-> FALSE, skip |-> sk, limit |-> li] :
        sk \in {<<>>, <<0>>, <<5>>, <<-1>>}, li \in {<<>>, <<0>>, <<10>>}}

InitCount ==
    /\ pc = "call"
    /\ op = "countDocumentsAggregatePipeline"
    /\ args \in {[filter |-> f, cargs |-> c] : f \in CountFilters, c \in CountArgs}
    /\ ret = NoRet

DoCountDocumentsAggregatePipeline ==
    /\ pc = "call"
    /\ op = "countDocumentsAggregatePipeline"
    /\ ret' = countDocumentsAggregatePipeline(args.filter, args.cargs)
    /\ pc' = "done"
    /\ UNCHANGED <<op, args>>

SpecCount == InitCount /\ [][DoCountDocumentsAggregatePipeline]_vars

(***************************************************************************)
(* What the inputs say, read off the values they were built from (never    *)
(* off the encoded bytes).                                                 *)
(***************************************************************************)
HasKey(elems, k) == \E i \in 1..Len(elems) : elems[i].key = k

ValueOfKey(elems, k) == elems[CHOOSE i \in 1..Len(elems) : elems[i].key = k].val

\* the document has a first element and its key starts with "$" (byte 36)
FirstKeyHasDollar(elems) ==
    /\ elems # <<>>
    /\ elems[1].key # <<>>
    /\ elems[1].key[1] = 36

\* the document has a first element and its key is exactly "$out" or "$merge"
FirstKeyNamesOutput(elems) ==
    /\ elems # <<>>
    /\ elems[1].key \in {<<36, 111, 117, 116>>, <<36, 109, 101, 114, 103, 101>>}

\* the encoder accepts the Go value as a document
Encodable(val) ==
    \/ val.kind \in {"D", "Struct"}
    \/ val.kind = "Bytes" /\ val.wf

(***************************************************************************)
(* ensureID.                                                               *)
(***************************************************************************)
\* C1: for every well-formed document without "_id", ensureID returns a new
\* document whose first element is "_id" holding an ObjectID, followed by
\* every original element in order and byte for byte; the length header is
\* the new size, the old size plus 17; the identifier returned is the
\* supplied ObjectID when that is non-zero and a fresh non-zero one otherwise.
C1_PrependsIdentifier ==
    (pc = "done" /\ args.doc.wf /\ ~HasKey(args.doc.elems, K_id)) =>
        /\ ret.status = "ok"
        /\ ret.id.t = TypeObjectID
        /\ ret.doc = EncodeDoc(<<El(K_id, ret.id)>> \o args.doc.elems)
        /\ DropN(ret.doc, int32Len + extraSpace) = DropN(args.doc.bytes, int32Len)
        /\ Len(ret.doc) = Len(args.doc.bytes) + 17
        /\ readi32(ret.doc) = Len(ret.doc)
        /\ ret.id.v # NilObjectID
        /\ IF args.oid # NilObjectID
           THEN ret.id.v = args.oid
           ELSE ret.id.v \in FreshOids

C1_Witness ==
    /\ pc = "done"
    /\ args.doc.wf
    /\ ~HasKey(args.doc.elems, K_id)
    /\ Len(args.doc.elems) = 2
    /\ args.oid = NilObjectID
    /\ ret.status = "ok"
    /\ ret.id.v \in FreshOids

\* C2: for every well-formed document that holds "_id" at any position,
\* ensureID returns the input bytes as they are and the value stored under
\* "_id"; the supplied ObjectID plays no part and none is generated.
C2_ExistingIdentifierKept ==
    (pc = "done" /\ args.doc.wf /\ HasKey(args.doc.elems, K_id)) =>
        /\ ret.status = "ok"
        /\ ret.doc = args.doc.bytes
        /\ ret.id = ValueOfKey(args.doc.elems, K_id)
        /\ ret.id.v \notin FreshOids

C2_Witness ==
    /\ pc = "done"
    /\ args.doc.wf
    /\ Len(args.doc.elems) = 2
    /\ args.doc.elems[2].key = K_id
    /\ args.doc.elems[2].val = VInt32(7)
    /\ args.oid = OidB
    /\ ret.status = "ok"
    /\ ret.doc = args.doc.bytes

\* C10: whenever no "_id" can be found in the input buffer, ensureID
\* completes, returning a document or an error; it never crashes.
C10_NeverCrashes ==
    (pc = "done" /\ ~LookupErr(args.doc.bytes, K_id).ok) => ret.status \in {"ok", "err"}

(***************************************************************************)
(* ensureDollarKey, ensureNoDollarKey.                                     *)
(***************************************************************************)
\* C4: ensureDollarKey returns no error exactly when the document has a
\* first element whose key begins with "$"; ensureNoDollarKey returns an
\* error exactly then; elements after the first do not matter.
C4_DollarKeyChecks ==
    (pc = "done" /\ args.doc.wf) =>
        /\ op = "ensureDollarKey" =>
              (ret.err = "nil" <=> FirstKeyHasDollar(args.doc.elems))
        /\ op = "ensureNoDollarKey" =>
              (ret.err # "nil" <=> FirstKeyHasDollar(args.doc.elems))

C4_Witness ==
    /\ pc = "done"
    /\ op = "ensureDollarKey"
    /\ args.doc.wf
    /\ Len(args.doc.elems) = 2
    /\ ~FirstKeyHasDollar(args.doc.elems)
    /\ args.doc.elems[2].key = K_set
    /\ ret.err # "nil"

(***************************************************************************)
(* marshalAggregatePipeline.                                               *)
(***************************************************************************)
\* whether the pipeline handed in ends in an output stage
EndsInOutputStage(p) ==
    CASE p.kind \in {"ValueMarshaler", "CoreArray"} ->
           /\ p.wf
           /\ p.avals # <<>>
           /\ p.avals[Len(p.avals)].t = TypeEmbeddedDocument
           /\ FirstKeyNamesOutput(p.avals[Len(p.avals)].v)
      [] p.kind \in {"Slice", "Array"} ->
           /\ p.items # <<>>
           /\ FirstKeyNamesOutput(p.items[Len(p.items)].elems)
      [] OTHER -> FALSE

C3_OutputStageDetectedWellFormed ==
    (pc = "done" /\ ret.status = "ok"
       /\ (args.pipeline.kind = "ValueMarshaler" => args.pipeline.wf)) =>
        (ret.hasOutputStage <=> EndsInOutputStage(args.pipeline))

\* C8: a bson.D, bson.Raw or bsoncore.Document pipeline fails when it is not
\* empty and yields the empty array with hasOutputStage false when it is; an
\* input that is neither self-encoding nor a slice or array (nil included)
\* fails.
C8_SingleDocumentRejected ==
    pc = "done" =>
        /\ args.pipeline.kind = "D" =>
              IF Len(args.pipeline.elems) > 0
              THEN ret.status = "err"
              ELSE ret = [status |-> "ok", doc |-> <<5, 0, 0, 0, 0>>, hasOutputStage |-> FALSE]
        /\ args.pipeline.kind \in {"Raw", "CoreDocument"} =>
              IF Len(args.pipeline.bytes) > 0
              THEN ret.status = "err"
              ELSE ret = [status |-> "ok", doc |-> <<5, 0, 0, 0, 0>>, hasOutputStage |-> FALSE]
        /\ args.pipeline.kind \in {"Nil", "Struct", "Unencodable", "Marshaler"} =>
              ret.status = "err"

C8_Witness ==
    /\ pc = "done"
    /\ args.pipeline.kind = "D"
    /\ Len(args.pipeline.elems) = 2
    /\ ret.status = "err"

\* C9: a self-encoding pipeline that declares type array and whose bytes
\* cannot be enumerated as values is answered with an error.
C9_MalformedArrayRejected ==
    (pc = "done" /\ args.pipeline.kind = "ValueMarshaler" /\ ~args.pipeline.merr
       /\ args.pipeline.btype = TypeArray /\ ~Values(args.pipeline.bytes).ok) =>
        ret.status = "err"

(***************************************************************************)
(* marshalUpdateValue.                                                     *)
(***************************************************************************)
\* C5: a value returned without error and tagged as a document has passed
\* the selected structural check, whatever shape it was given in.
C5_DocumentPassedCheck ==
    (pc = "done" /\ ret.err = "nil" /\ ret.type = TypeEmbeddedDocument) =>
        documentCheckerFunc(args.dollarKeysAllowed, ret.data) = "nil"

\* the item encodes and passes the selected structural check
ItemPasses(item, dollarKeysAllowed) ==
    /\ Encodable(item)
    /\ dollarKeysAllowed <=> FirstKeyHasDollar(item.elems)

\* 1-based position of the first item that does not pass; 0 when all pass
FirstFailing(items, dollarKeysAllowed) ==
    LET F == {i \in 1..Len(items) : ~ItemPasses(items[i], dollarKeysAllowed)}
    IN  IF F = {} THEN 0 ELSE CHOOSE i \in F : \A j \in F : i <= j

\* C6: a slice or array update is processed in index order; the first item
\* that fails to encode or fails the check ends the call with an error and
\* no later item is processed; otherwise the result is an array holding one
\* document per item, in order, under the keys "0", "1", ...
C6_EveryItemChecked ==
    (pc = "done" /\ args.update.kind \in {"Slice", "Array"}) =>
        LET items == args.update.items
            bad == FirstFailing(items, args.dollarKeysAllowed)
        IN  IF bad = 0
            THEN /\ ret.err = "nil"
                 /\ ret.type = TypeArray
                 /\ ret.calls = [i \in 1..Len(items) |-> i - 1]
                 /\ ret.data = EncodeArray([i \in 1..Len(items) |-> VDoc(items[i].elems)])
                 /\ Elements(ret.data).ok
                 /\ Len(Elements(ret.data).elems) = Len(items)
                 /\ \A i \in 1..Len(items) :
                       /\ ElemKey(Elements(ret.data).elems[i]) = <<48 + (i - 1)>>
                       /\ ElemValue(Elements(ret.data).elems[i]).t = TypeEmbeddedDocument
            ELSE /\ ret.err # "nil"
                 /\ ret.calls = [i \in 1..bad |-> i - 1]

C6_Witness ==
    /\ pc = "done"
    /\ args.update.kind = "Slice"
    /\ args.dollarKeysAllowed
    /\ Len(args.update.items) = 2
    /\ ItemPasses(args.update.items[1], TRUE)
    /\ ~ItemPasses(args.update.items[2], TRUE)
    /\ Encodable(args.update.items[2])
    /\ ret.err # "nil"
    /\ ret.calls = <<0, 1>>

(***************************************************************************)
(* countDocumentsAggregatePipeline.                                        *)
(***************************************************************************)
SkipPresent == ~args.cargs.isNil /\ args.cargs.skip # <<>>
LimitPresent == ~args.cargs.isNil /\ args.cargs.limit # <<>>

ExpectedCountStages ==
    <<VDoc(<<El(K_match, VDoc(args.filter.elems))>>)>>
    \o (IF SkipPresent THEN <<VDoc(<<El(K_skip, VInt64(args.cargs.skip[1]))>>)>> ELSE <<>>)
    \o (IF LimitPresent THEN <<VDoc(<<El(K_limit, VInt64(args.cargs.limit[1]))>>)>> ELSE <<>>)
    \o <<VDoc(<<El(K_group, VDoc(<<El(K_id, VInt32(1)),
                                   El(K_n, VDoc(<<El(K_sum, VInt32(1))>>))>>))>>)>>

\* C7: when the filter encodes, the result is an array of exactly
\* 2 + [skip present] + [limit present] stages in the order $match, $skip,
\* $limit, $group under the keys "0", "1", ... with no gap; when it does
\* not, the error is returned and no array.
C7_CountStagesSequential ==
    pc = "done" =>
        IF ~Encodable(args.filter)
        THEN ret = [status |-> "err", doc |-> <<>>]
        ELSE LET n == 2 + (IF SkipPresent THEN 1 ELSE 0) + (IF LimitPresent THEN 1 ELSE 0)
                 es == Elements(ret.doc)
             IN  /\ ret.status = "ok"
                 /\ ret.doc = EncodeArray(ExpectedCountStages)
                 /\ es.ok
                 /\ Len(es.elems) = n
                 /\ \A i \in 1..n :
                       /\ ElemKey(es.elems[i]) = <<48 + (i - 1)>>
                       /\ ElemValue(es.elems[i]).t = TypeEmbeddedDocument
                 /\ ElemKey(IndexErr(ElemValue(es.elems[n]).data, 0).elem) = K_group
                 /\ ElemKey(IndexErr(ElemValue(es.elems[1]).data, 0).elem) = K_match

C7_Witness ==
    /\ pc = "done"
    /\ Encodable(args.filter)
    /\ ~SkipPresent
    /\ LimitPresent
    /\ ~args.cargs.isNil
    /\ ret.status = "ok"
    /\ Len(Elements(ret.doc).elems) = 3

====
